---- MODULE Spec2Model ----
(***************************************************************************)
(* Model of fluxsave_sdk/client.py: the error classifier                   *)
(* _resolve_error_code, the FluxsaveError value and the FluxsaveClient      *)
(* operations.  Python strings are sequences of one-character strings, so  *)
(* that lower(), substring containment, rstrip and join are computed.      *)
(***************************************************************************)
EXTENDS Integers, Sequences, FiniteSets

VARIABLES base_url, api_key, api_secret, timeout,   \* FluxsaveClient fields
          unclosed,      \* handles the client opened that are still open: not
                         \* closed by the client, not yet finalised by the runtime
          last,          \* outcome of the last completed call
          tpc, rk, rs,   \* caller thread inside _request/_headers, its reads
          wpc, warg,     \* per thread inside set_auth: position, pending api_secret
          pairs,         \* SpecThreads: credential pairs ever set together
          overlap,       \* a set_auth ran while the caller built its headers
          raced          \* two set_auth calls have run at the same time

vars == <<base_url, api_key, api_secret, timeout, unclosed, last,
          tpc, rk, rs, wpc, warg, pairs, overlap, raced>>

\* ------------------------------------------------------------- bounds
MaxFragments == 3     \* fragments concatenated into a classifier message
MaxFiles == 2         \* length of upload_files' file_paths
MaxOptions == 2       \* number of build_file_url options
MaxUnclosed == 2      \* leaked handles tracked before uploads are cut off

\* ------------------------------------------------------------- Python values
\* A value that may be None, a str, an int or a list: t is its type, s the
\* characters of a str, n an int's value or a list's length.
NoneV == [t |-> "none", s |-> <<>>, n |-> 0]
StrV(x) == [t |-> "str", s |-> x, n |-> 0]
IntV(k) == [t |-> "int", s |-> <<>>, n |-> k]
ListV(k) == [t |-> "list", s |-> <<>>, n |-> k]

\* Python truthiness: `not x`, `x or y`, `if x`.
Truthy(v) ==
  CASE v.t = "none" -> FALSE
    [] v.t = "str" -> v.s # <<>>
    [] v.t = "int" -> v.n # 0
    [] OTHER -> v.n # 0

UpperToLower ==
  [A |-> "a", B |-> "b", C |-> "c", D |-> "d", E |-> "e", F |-> "f", G |-> "g",
   H |-> "h", I |-> "i", J |-> "j", K |-> "k", L |-> "l", M |-> "m", N |-> "n",
   O |-> "o", P |-> "p", Q |-> "q", R |-> "r", S |-> "s", T |-> "t", U |-> "u",
   V |-> "v", W |-> "w", X |-> "x", Y |-> "y", Z |-> "z"]

\* str.lower()
Lower(s) ==
  [i \in 1..Len(s) |-> IF s[i] \in DOMAIN UpperToLower THEN UpperToLower[s[i]] ELSE s[i]]

\* `sub in s` for strings
Contains(sub, s) ==
  \E i \in 0..(Len(s) - Len(sub)) : SubSeq(s, i + 1, i + Len(sub)) = sub

\* ------------------------------------------------------------- classifier
resolve_folder_first(status, message) ==
  LET m == Lower(message) IN
  IF status = 413 /\ Contains(<<"s","t","o","r","a","g","e"," ","l","i","m","i","t">>, m) THEN "STORAGE_LIMIT"
  ELSE IF status = 413 THEN "FILE_TOO_LARGE"
  ELSE IF status = 415 THEN "MIME_TYPE_NOT_ALLOWED"
  ELSE IF status = 402 THEN "SUBSCRIPTION_INACTIVE"
  ELSE IF status = 403 /\ Contains(<<"f","o","l","d","e","r">>, m) THEN "FOLDER_COUNT_LIMIT"
  ELSE IF status = 403 /\ Contains(<<"c","o","m","p","r","e","s","s","i","o","n">>, m) THEN "COMPRESSION_NOT_ALLOWED"
  ELSE IF status = 403 /\ (Contains(<<"f","i","l","e">>, m) \/ Contains(<<"m","a","x","i","m","u","m">>, m))
    THEN "FILE_COUNT_LIMIT"
  ELSE IF status = 403 /\ Contains(<<"e","m","a","i","l">>, m) THEN "EMAIL_NOT_VERIFIED"
  ELSE IF status = 400 /\ Contains(<<"a","l","r","e","a","d","y"," ","r","e","g","i","s","t","e","r","e","d">>, m)
    THEN "EMAIL_ALREADY_REGISTERED"
  ELSE IF status = 400 /\ (Contains(<<"i","n","v","a","l","i","d"," ","e","m","a","i","l"," ","o","r"," ","p","a","s","s","w","o","r","d">>, m)
                           \/ Contains(<<"i","n","v","a","l","i","d"," ","c","r","e","d","e","n","t","i","a","l","s">>, m))
    THEN "INVALID_CREDENTIALS"
  ELSE IF status = 400 /\ Contains(<<"o","t","p">>, m) THEN "INVALID_OTP"
  ELSE IF status = 401 THEN "UNAUTHORIZED"
  ELSE IF status = 404 THEN "NOT_FOUND"
  ELSE "UNKNOWN"

_resolve_error_code(status, message) ==
  LET m == Lower(message) IN
  IF status = 413 /\ Contains(<<"s","t","o","r","a","g","e"," ","l","i","m","i","t">>, m) THEN "STORAGE_LIMIT"
  ELSE IF status = 413 THEN "FILE_TOO_LARGE"
  ELSE IF status = 415 THEN "MIME_TYPE_NOT_ALLOWED"
  ELSE IF status = 402 THEN "SUBSCRIPTION_INACTIVE"
  ELSE IF status = 403 /\ Contains(<<"c","o","m","p","r","e","s","s","i","o","n">>, m) THEN "COMPRESSION_NOT_ALLOWED"
  ELSE IF status = 403 /\ Contains(<<"f","o","l","d","e","r">>, m) THEN "FOLDER_COUNT_LIMIT"
  ELSE IF status = 403 /\ (Contains(<<"f","i","l","e">>, m) \/ Contains(<<"m","a","x","i","m","u","m">>, m))
    THEN "FILE_COUNT_LIMIT"
  ELSE IF status = 403 /\ Contains(<<"e","m","a","i","l">>, m) THEN "EMAIL_NOT_VERIFIED"
  ELSE IF status = 400 /\ Contains(<<"a","l","r","e","a","d","y"," ","r","e","g","i","s","t","e","r","e","d">>, m)
    THEN "EMAIL_ALREADY_REGISTERED"
  ELSE IF status = 400 /\ (Contains(<<"i","n","v","a","l","i","d"," ","e","m","a","i","l"," ","o","r"," ","p","a","s","s","w","o","r","d">>, m)
                           \/ Contains(<<"i","n","v","a","l","i","d"," ","c","r","e","d","e","n","t","i","a","l","s">>, m))
    THEN "INVALID_CREDENTIALS"
  ELSE IF status = 400 /\ Contains(<<"o","t","p">>, m) THEN "INVALID_OTP"
  ELSE IF status = 401 THEN "UNAUTHORIZED"
  ELSE IF status = 404 THEN "NOT_FOUND"
  ELSE "UNKNOWN"

\* ------------------------------------------------------------- payloads
\* A decoded body or raw text: t is "dict", "list", "str" or "none"; a dict
\* may hold a message field; a str payload carries the raw text.
NoPayload == [t |-> "none", text |-> "", has_message |-> FALSE, message |-> NoneV]
DictMsg(txt, v) == [t |-> "dict", text |-> txt, has_message |-> TRUE, message |-> v]
DictNoMsg(txt) == [t |-> "dict", text |-> txt, has_message |-> FALSE, message |-> NoneV]
ArrayBody(txt) == [t |-> "list", text |-> txt, has_message |-> FALSE, message |-> NoneV]
TextPayload(txt) == [t |-> "str", text |-> txt, has_message |-> FALSE, message |-> NoneV]

\* A transport response: status_code, reason, text, and what response.json()
\* does: json_ok = FALSE when it raises ValueError, else json is its value.
Resp(st, rsn, txt, jok, js) ==
  [status_code |-> st, reason |-> rsn, text |-> txt, json_ok |-> jok, json |-> js]

NoResp == Resp(0, <<>>, "", FALSE, NoPayload)

\* The outcome record of a call, before its fields are filled in.  opened
\* counts the handles the call opened, closed those its finally block
\* closed, finalised those the runtime closed while the call unwound.
Blank ==
  [op |-> "", method |-> "", url |-> <<>>, kind |-> "none",
   status |-> 0, message |-> NoneV, code |-> "", data |-> NoPayload,
   value |-> NoPayload, sent |-> 0, opened |-> 0, closed |-> 0, finalised |-> 0,
   key |-> NoneV, secret |-> NoneV, hkey |-> NoneV, hsecret |-> NoneV,
   transport |-> "none", response |-> NoResp,
   file_id |-> <<>>, options |-> <<>>, overlapped |-> FALSE, raced |-> FALSE]

\* ------------------------------------------------------------- FluxsaveError
post_init_ignores_message(o, message, status, data) ==
  IF message.t # "str"
  THEN [o EXCEPT !.kind = "AttributeError"]
  ELSE [o EXCEPT !.kind = "FluxsaveError", !.message = message, !.status = status,
                 !.data = data, !.code = _resolve_error_code(status, <<>>)]

\* raise FluxsaveError(message, status, data): __post_init__ calls
\* message.lower(), which raises AttributeError when message is no str.
FluxsaveError(o, message, status, data) ==
  IF message.t # "str"
  THEN [o EXCEPT !.kind = "AttributeError"]
  ELSE [o EXCEPT !.kind = "FluxsaveError", !.message = message, !.status = status,
                 !.data = data, !.code = _resolve_error_code(status, message.s)]

\* ------------------------------------------------------------- _headers
HeadersOk(key, secret) == Truthy(key) /\ Truthy(secret)

\* response.ok: requests reports failure for 400 <= status < 600
ok(response) == ~(400 <= response.status_code /\ response.status_code < 600)

payload_text_only(response) == TextPayload(response.text)

\* try: payload = response.json()  except ValueError: payload = response.text
payload_of(response) ==
  IF response.json_ok THEN response.json ELSE TextPayload(response.text)

\* ------------------------------------------------------------- _request
\* The part of _request after the headers are built: the single
\* requests.request call, the decoding of the body and the status check.
\* env is what the transport does with the call: it raises (env.raises is
\* the exception's name) or returns env.response.
_respond(o, hkey, hsecret, env) ==
  LET o1 == [o EXCEPT !.sent = o.sent + 1, !.hkey = hkey, !.hsecret = hsecret,
                      !.transport = env.raises, !.response = env.response]
      response == env.response
      payload == payload_of(response)
      message == IF payload.t = "dict"
                 THEN (IF payload.has_message THEN payload.message ELSE NoneV)
                 ELSE StrV(response.reason)
  IN IF env.raises # "none"
     THEN [o1 EXCEPT !.kind = env.raises]
     ELSE IF ~ok(response)
     THEN FluxsaveError(o1, IF Truthy(message) THEN message ELSE StrV(response.reason),
                        response.status_code, payload)
     ELSE [o1 EXCEPT !.kind = "return", !.value = payload]

\* raise FluxsaveError("API key and secret are required", 401)
Unauthorized(o) ==
  FluxsaveError(o, StrV(<<"A","P","I"," ","k","e","y"," ","a","n","d"," ","s","e","c","r","e","t"," ","a","r","e"," ","r","e","q","u","i","r","e","d">>), 401, NoPayload)

\* _request run without interruption: _headers() is evaluated as an argument
\* of requests.request, so a missing credential raises before any call.
_request(o, key, secret, env) ==
  IF ~HeadersOk(key, secret) THEN Unauthorized(o) ELSE _respond(o, key, secret, env)

\* ------------------------------------------------------------- environment
Responses ==
  { Resp(200, <<"O","K">>, "{\"message\": \"Storage limit exceeded\", \"id\": 1}", TRUE,
         DictMsg("{\"message\": \"Storage limit exceeded\", \"id\": 1}",
                 StrV(<<"S","t","o","r","a","g","e"," ","l","i","m","i","t"," ","e","x","c","e","e","d","e","d">>))),
    Resp(200, <<"O","K">>, "<html>ok</html>", FALSE, NoPayload),
    Resp(304, <<"N","o","t"," ","M","o","d","i","f","i","e","d">>, "", FALSE, NoPayload),
    Resp(413, <<"P","a","y","l","o","a","d"," ","T","o","o"," ","L","a","r","g","e">>, "{\"message\": \"Storage limit exceeded\"}", TRUE,
         DictMsg("{\"message\": \"Storage limit exceeded\"}",
                 StrV(<<"S","t","o","r","a","g","e"," ","l","i","m","i","t"," ","e","x","c","e","e","d","e","d">>))),
    Resp(403, <<"F","o","r","b","i","d","d","e","n">>,
         "{\"message\": \"Maximum folder count reached and compression disabled\"}", TRUE,
         DictMsg("{\"message\": \"Maximum folder count reached and compression disabled\"}",
                 StrV(<<"M","a","x","i","m","u","m"," ","f","o","l","d","e","r"," ","c","o","u","n","t"," ","r","e","a","c","h","e","d"," ","a","n","d"," ","c","o","m","p","r","e","s","s","i","o","n"," ","d","i","s","a","b","l","e","d">>))),
    Resp(400, <<"B","a","d"," ","R","e","q","u","e","s","t">>, "{\"message\": [\"name must be a string\"]}", TRUE,
         DictMsg("{\"message\": [\"name must be a string\"]}", ListV(1))),
    Resp(400, <<"B","a","d"," ","O","T","P"," ","c","o","d","e">>, "{\"message\": \"\"}", TRUE,
         DictMsg("{\"message\": \"\"}", StrV(<<>>))),
    Resp(404, <<"N","o","t"," ","F","o","u","n","d">>, "{}", TRUE, DictNoMsg("{}")),
    Resp(500, <<"I","n","t","e","r","n","a","l"," ","S","e","r","v","e","r"," ","E","r","r","o","r">>, "[\"storage limit\"]", TRUE,
         ArrayBody("[\"storage limit\"]")),
    Resp(502, <<"B","a","d"," ","G","a","t","e","w","a","y">>, "<html>502</html>", FALSE, NoPayload),
    Resp(401, <<>>, "", FALSE, NoPayload) }

\* What the transport does with one requests.request call.
Envs ==
  { [raises |-> "ConnectionError", response |-> NoResp] }
  \cup { [raises |-> "none", response |-> r] : r \in Responses }

\* The local file system: open(path, "rb") succeeds for these paths only.
ExistingPaths == {"a.bin"}
Paths == {"a.bin", "missing.bin"}

RECURSIVE SeqsUpTo(_, _)
\* all sequences over S of length at most n
SeqsUpTo(S, n) ==
  IF n = 0 THEN {<<>>}
  ELSE LET shorter == SeqsUpTo(S, n - 1)
       IN shorter \cup {Append(q, x) : q \in shorter, x \in S}

Ids == { <<"a","b","c">> }
FolderIdArgs == {NoneV, StrV(<<"a","b","c">>)}

\* ------------------------------------------------------------- construction
RECURSIVE rstrip(_, _)
\* str.rstrip(ch): drops every trailing ch
rstrip(s, ch) ==
  IF s # <<>> /\ s[Len(s)] = ch THEN rstrip(SubSeq(s, 1, Len(s) - 1), ch) ELSE s

CtorBaseUrls == { <<"h","t","t","p",":","/","/","h">>, <<"h","t","t","p",":","/","/","h","/">>, <<"h","t","t","p",":","/","/","h","/","/">> }
CtorKeys == {NoneV, StrV(<<"K","1">>)}
CtorSecrets == {NoneV, StrV(<<"S","1">>)}
DefaultTimeout == 30
CtorTimeouts == {DefaultTimeout, 5}

\* The threads that may call set_auth on the one client.
Writers == {"A", "B"}

\* FluxsaveClient.__init__
Init ==
  /\ \E b \in CtorBaseUrls : base_url = rstrip(b, "/")
  /\ api_key \in CtorKeys
  /\ api_secret \in CtorSecrets
  /\ timeout \in CtorTimeouts
  /\ unclosed = 0
  /\ last = Blank
  /\ tpc = "idle" /\ rk = NoneV /\ rs = NoneV
  /\ wpc = [w \in Writers |-> "idle"] /\ warg = [w \in Writers |-> NoneV]
  /\ pairs = {<<api_key, api_secret>>}
  /\ overlap = FALSE
  /\ raced = FALSE

threadVars == <<tpc, rk, rs, wpc, warg, pairs, overlap, raced>>
config == <<base_url, api_key, api_secret, timeout>>

\* ------------------------------------------------------------- operations
\* The outcome record of a call that has been entered: the operation and
\* the credentials the client holds at that moment.
Entered(op) == [Blank EXCEPT !.op = op, !.key = api_key, !.secret = api_secret]

\* The outcome record once _request has been entered: url = base_url + path.
Start(op, method, path) ==
  [Entered(op) EXCEPT !.method = method, !.url = base_url \o path]

\* An operation that is one call of _request and nothing else.
Call(op, method, path, env) ==
  /\ last' = _request(Start(op, method, path), api_key, api_secret, env)
  /\ UNCHANGED <<config, unclosed, threadVars>>

\* An operation that opens one file, calls _request inside try and closes
\* the file in finally.
CallWithFile(op, method, path, file_path, env) ==
  /\ IF file_path \in ExistingPaths
     THEN last' = [_request(Start(op, method, path), api_key, api_secret, env)
                     EXCEPT !.opened = 1, !.closed = 1]
     ELSE last' = [Entered(op) EXCEPT !.kind = "OSError"]  \* open() raised
  /\ UNCHANGED <<config, unclosed, threadVars>>

upload_file ==
  \E file_path \in Paths, env \in Envs :
    CallWithFile("upload_file", "POST", <<"/","a","p","i","/","v","1","/","f","i","l","e","s","/","u","p","l","o","a","d">>, file_path, env)

\* The list comprehension of upload_files: the number of paths opened
\* before the first open() that raises, or all of them.
RECURSIVE OpenedBeforeFailure(_)
OpenedBeforeFailure(file_paths) ==
  IF file_paths = <<>> \/ Head(file_paths) \notin ExistingPaths THEN 0
  ELSE 1 + OpenedBeforeFailure(Tail(file_paths))

upload_files ==
  \E file_paths \in SeqsUpTo(Paths, MaxFiles), env \in Envs :
    LET n == OpenedBeforeFailure(file_paths)
        o == Start("upload_files", "POST", <<"/","a","p","i","/","v","1","/","f","i","l","e","s","/","u","p","l","o","a","d">>)
    IN IF n = Len(file_paths)
       THEN /\ last' = [_request(o, api_key, api_secret, env)
                          EXCEPT !.opened = n, !.closed = n]
            /\ UNCHANGED <<config, unclosed, threadVars>>
       ELSE \* open() raised inside the comprehension, before the try block:
            \* the finally block is not reached and the client closes none
            \* of the n handles.  The half-built list is dropped; a
            \* reference-counting runtime finalises its handles while the
            \* call unwinds, any other runtime leaves them open until its
            \* collector runs, so kept of them are still open on exit.
            \E kept \in 0..n :
              /\ unclosed + kept <= MaxUnclosed
              /\ last' = [Entered("upload_files") EXCEPT !.kind = "OSError",
                             !.opened = n, !.finalised = n - kept]
              /\ unclosed' = unclosed + kept
              /\ UNCHANGED <<config, threadVars>>

\* The runtime's collector finalises a handle the client dropped unclosed.
finalize_handle ==
  /\ unclosed > 0
  /\ unclosed' = unclosed - 1
  /\ UNCHANGED <<config, last, threadVars>>

list_files ==
  \E folder_id \in FolderIdArgs, env \in Envs :
    Call("list_files", "GET",
         IF Truthy(folder_id) THEN <<"/","a","p","i","/","v","1","/","f","i","l","e","s","?","f","o","l","d","e","r","I","d","=">> \o folder_id.s
         ELSE <<"/","a","p","i","/","v","1","/","f","i","l","e","s">>, env)

list_folders ==
  \E env \in Envs : Call("list_folders", "GET", <<"/","a","p","i","/","v","1","/","f","o","l","d","e","r","s">>, env)

create_folder ==
  \E env \in Envs : Call("create_folder", "POST", <<"/","a","p","i","/","v","1","/","f","o","l","d","e","r","s">>, env)

rename_folder ==
  \E folder_id \in Ids, env \in Envs :
    Call("rename_folder", "PATCH", <<"/","a","p","i","/","v","1","/","f","o","l","d","e","r","s","/">> \o folder_id, env)

delete_folder ==
  \E folder_id \in Ids, env \in Envs :
    Call("delete_folder", "DELETE", <<"/","a","p","i","/","v","1","/","f","o","l","d","e","r","s","/">> \o folder_id, env)

get_file_metadata ==
  \E file_id \in Ids, env \in Envs :
    Call("get_file_metadata", "GET", <<"/","a","p","i","/","v","1","/","f","i","l","e","s","/","m","e","t","a","d","a","t","a","/">> \o file_id, env)

update_file ==
  \E file_id \in Ids, file_path \in Paths, env \in Envs :
    CallWithFile("update_file", "PUT", <<"/","a","p","i","/","v","1","/","f","i","l","e","s","/">> \o file_id, file_path, env)

delete_file ==
  \E file_id \in Ids, env \in Envs :
    Call("delete_file", "DELETE", <<"/","a","p","i","/","v","1","/","f","i","l","e","s","/">> \o file_id, env)

get_metrics ==
  \E env \in Envs : Call("get_metrics", "GET", <<"/","a","p","i","/","v","1","/","m","e","t","r","i","c","s">>, env)

\* ------------------------------------------------------------- build_file_url
Digit(d) == <<"0", "1", "2", "3", "4", "5", "6", "7", "8", "9">>[d + 1]

RECURSIVE Decimal(_)
\* str(n) for an int n >= 0
Decimal(n) == IF n < 10 THEN <<Digit(n)>> ELSE Decimal(n \div 10) \o <<Digit(n % 10)>>

\* f"{v}": the text Python formats a value as
PyStr(v) ==
  CASE v.t = "str" -> v.s
    [] v.t = "int" -> IF v.n < 0 THEN <<"-">> \o Decimal(-v.n) ELSE Decimal(v.n)
    [] v.t = "none" -> <<"N","o","n","e">>

RECURSIVE Join(_, _)
\* sep.join(parts)
Join(sep, parts) ==
  IF parts = <<>> THEN <<>>
  ELSE IF Len(parts) = 1 THEN parts[1]
  ELSE parts[1] \o sep \o Join(sep, Tail(parts))

\* Keyword options: a dict keeps the order given and its keys are distinct.
OptionItems ==
  { [k |-> <<"w">>, v |-> IntV(100)], [k |-> <<"h">>, v |-> IntV(50)],
    [k |-> <<"f","m","t">>, v |-> StrV(<<"w","e","b","p">>)], [k |-> <<"q">>, v |-> IntV(0)] }
OptionArgs ==
  { o \in SeqsUpTo(OptionItems, MaxOptions) :
      \A i, j \in 1..Len(o) : i # j => o[i].k # o[j].k }

file_url_keeps_question_mark(file_id, options) ==
  LET url == base_url \o <<"/","a","p","i","/","v","1","/","f","i","l","e","s","/">> \o file_id
      query == Join(<<"&">>, [i \in 1..Len(options) |->
                                options[i].k \o <<"=">> \o PyStr(options[i].v)])
  IN url \o <<"?">> \o query

\* the string build_file_url returns
file_url(file_id, options) ==
  LET url == base_url \o <<"/","a","p","i","/","v","1","/","f","i","l","e","s","/">> \o file_id
      query == Join(<<"&">>, [i \in 1..Len(options) |->
                                options[i].k \o <<"=">> \o PyStr(options[i].v)])
  IN IF options # <<>> THEN url \o <<"?">> \o query ELSE url

build_file_url ==
  \E file_id \in Ids, options \in OptionArgs :
    /\ last' = [Entered("build_file_url") EXCEPT !.kind = "return",
                             !.file_id = file_id, !.options = options,
                             !.url = file_url(file_id, options)]
    /\ UNCHANGED <<config, unclosed, threadVars>>

\* ------------------------------------------------------------- set_auth
AuthKeys == {StrV(<<>>), StrV(<<"K","2">>)}
AuthSecrets == {StrV(<<>>), StrV(<<"S","2">>)}

set_auth_resets_timeout(key, secret) ==
  /\ api_key' = key
  /\ api_secret' = secret
  /\ timeout' = DefaultTimeout
  /\ last' = [Entered("set_auth") EXCEPT !.kind = "return"]
  /\ UNCHANGED <<base_url, unclosed, threadVars>>

\* set_auth called with no other thread running
set_auth(key, secret) ==
  /\ api_key' = key
  /\ api_secret' = secret
  /\ last' = [Entered("set_auth") EXCEPT !.kind = "return"]
  /\ UNCHANGED <<base_url, timeout, unclosed, threadVars>>

SetAuth == \E key \in AuthKeys, secret \in AuthSecrets : set_auth(key, secret)

\* ------------------------------------------------------------- one caller
Next ==
  \/ upload_file
  \/ upload_files
  \/ list_files
  \/ list_folders
  \/ create_folder
  \/ rename_folder
  \/ delete_folder
  \/ get_file_metadata
  \/ update_file
  \/ delete_file
  \/ get_metrics
  \/ build_file_url
  \/ SetAuth
  \/ finalize_handle

Spec == Init /\ [][Next]_vars

\* ------------------------------------------------------------- classifier runs
\* _resolve_error_code called on its own: Init draws the status and the
\* message, classify applies the function.
Statuses == {200, 400, 401, 402, 403, 404, 409, 413, 415, 500}

Fragments ==
  { <<"S","t","o","r","a","g","e"," ","l","i","m","i","t">>, <<"S","T","O","R","A","G","E">>, <<" ","L","I","M","I","T">>, <<"c","o","m","p","r","e","s","s","i","o","n">>, <<"C","o","m","p","r","e","s","s">>, <<"i","o","n">>,
    <<"F","o","l","d","e","r">>, <<"p","r","o">>, <<"f","i","l","e">>, <<"M","A","X","I","M","U","M">>, <<"E","m","a","i","l">>,
    <<"A","l","r","e","a","d","y"," ","R","e","g","i","s","t","e","r","e","d">>, <<"I","n","v","a","l","i","d"," ","e","m","a","i","l"," ","o","r"," ","p","a","s","s","w","o","r","d">>, <<"i","n","v","a","l","i","d"," ","c","r","e","d","e","n","t","i","a","l","s">>,
    <<"O","t","p">>, <<"o","t">>, <<"p"," ">>, <<" ">>, <<"s","e","r","v","e","r"," ","e","x","p","l","o","d","e","d">> }

RECURSIVE Concat(_)
Concat(parts) == IF parts = <<>> THEN <<>> ELSE Head(parts) \o Concat(Tail(parts))

Messages == { Concat(parts) : parts \in SeqsUpTo(Fragments, MaxFragments) }

InitClassify ==
  /\ base_url = <<"h","t","t","p",":","/","/","h">>
  /\ api_key = NoneV
  /\ api_secret = NoneV
  /\ timeout = DefaultTimeout
  /\ unclosed = 0
  /\ \E status \in Statuses, message \in Messages :
       last = [Blank EXCEPT !.op = "input", !.status = status, !.message = StrV(message)]
  /\ tpc = "idle" /\ rk = NoneV /\ rs = NoneV
  /\ wpc = [w \in Writers |-> "idle"] /\ warg = [w \in Writers |-> NoneV]
  /\ pairs = {<<api_key, api_secret>>}
  /\ overlap = FALSE
  /\ raced = FALSE

classify ==
  /\ last.op = "input"
  /\ last' = [last EXCEPT !.op = "_resolve_error_code",
                          !.code = _resolve_error_code(last.status, last.message.s)]
  /\ UNCHANGED <<config, unclosed, threadVars>>

NextClassify == classify

SpecClassify == InitClassify /\ [][NextClassify]_vars

\* ------------------------------------------------------------- threads
\* One thread calls list_folders while the threads of Writers call set_auth.
\* No method takes a lock, so the threads interleave between attribute
\* reads and writes: _headers reads api_key and api_secret twice each,
\* set_auth writes api_key and then api_secret.  Callers only read the
\* client, so one caller shows what any caller can observe.
ThreadEnvs ==
  { env \in Envs : env.raises # "none" \/ env.response.status_code \in {200, 404} }
ThreadAuthArgs ==
  { <<StrV(<<"K","2">>), StrV(<<"S","2">>)>>, <<StrV(<<"K","3">>), StrV(<<"S","3">>)>> }

\* Some thread is between the two assignments of set_auth.
InSetAuth == \E w \in Writers : wpc[w] # "idle"

t_call ==
  /\ tpc = "idle"
  /\ tpc' = "check_key"
  /\ overlap' = InSetAuth
  /\ UNCHANGED <<config, unclosed, last, rk, rs, wpc, warg, pairs, raced>>

ListFoldersStart == Start("list_folders", "GET", <<"/","a","p","i","/","v","1","/","f","o","l","d","e","r","s">>)

\* `not self.api_key`
t_check_key ==
  /\ tpc = "check_key"
  /\ IF Truthy(api_key)
     THEN tpc' = "check_secret" /\ UNCHANGED last
     ELSE tpc' = "idle"
          /\ last' = [Unauthorized(ListFoldersStart)
                        EXCEPT !.overlapped = overlap, !.raced = raced]
  /\ UNCHANGED <<config, unclosed, rk, rs, wpc, warg, pairs, overlap, raced>>

\* `not self.api_secret`
t_check_secret ==
  /\ tpc = "check_secret"
  /\ IF Truthy(api_secret)
     THEN tpc' = "read_key" /\ UNCHANGED last
     ELSE tpc' = "idle"
          /\ last' = [Unauthorized(ListFoldersStart)
                        EXCEPT !.overlapped = overlap, !.raced = raced]
  /\ UNCHANGED <<config, unclosed, rk, rs, wpc, warg, pairs, overlap, raced>>

\* "x-api-key": self.api_key
t_read_key ==
  /\ tpc = "read_key"
  /\ rk' = api_key
  /\ tpc' = "read_secret"
  /\ UNCHANGED <<config, unclosed, last, rs, wpc, warg, pairs, overlap, raced>>

\* "x-api-secret": self.api_secret
t_read_secret ==
  /\ tpc = "read_secret"
  /\ rs' = api_secret
  /\ tpc' = "send"
  /\ UNCHANGED <<config, unclosed, last, rk, wpc, warg, pairs, overlap, raced>>

\* requests.request with the headers just built, and the rest of _request
t_send ==
  /\ tpc = "send"
  /\ \E env \in ThreadEnvs :
       last' = [_respond(ListFoldersStart, rk, rs, env)
                  EXCEPT !.overlapped = overlap, !.raced = raced]
  /\ tpc' = "idle"
  /\ rk' = NoneV /\ rs' = NoneV        \* _headers' dict is dropped on return
  /\ UNCHANGED <<config, unclosed, wpc, warg, pairs, overlap, raced>>

\* self.api_key = api_key, in thread w
set_auth_key(w) ==
  /\ wpc[w] = "idle"
  /\ \E args \in ThreadAuthArgs :
       /\ api_key' = args[1]
       /\ warg' = [warg EXCEPT ![w] = args[2]]
       /\ pairs' = pairs \cup {args}
  /\ wpc' = [wpc EXCEPT ![w] = "secret"]
  /\ overlap' = (overlap \/ tpc # "idle")
  /\ raced' = (raced \/ InSetAuth)
  /\ UNCHANGED <<base_url, api_secret, timeout, unclosed, last, tpc, rk, rs>>

set_auth_secret_skipped(w) ==
  /\ wpc[w] = "secret"
  /\ warg' = [warg EXCEPT ![w] = NoneV]
  /\ wpc' = [wpc EXCEPT ![w] = "idle"]
  /\ overlap' = (overlap \/ tpc # "idle")
  /\ UNCHANGED <<config, unclosed, last, tpc, rk, rs, pairs, raced>>

\* self.api_secret = api_secret, in thread w
set_auth_secret(w) ==
  /\ wpc[w] = "secret"
  /\ api_secret' = warg[w]
  /\ warg' = [warg EXCEPT ![w] = NoneV]
  /\ wpc' = [wpc EXCEPT ![w] = "idle"]
  /\ overlap' = (overlap \/ tpc # "idle")
  /\ UNCHANGED <<base_url, api_key, timeout, unclosed, last, tpc, rk, rs, pairs, raced>>

SetAuthKey == \E w \in Writers : set_auth_key(w)
SetAuthSecret == \E w \in Writers : set_auth_secret(w)

NextThreads ==
  \/ t_call
  \/ t_check_key
  \/ t_check_secret
  \/ t_read_key
  \/ t_read_secret
  \/ t_send
  \/ SetAuthKey
  \/ SetAuthSecret

SpecThreads == Init /\ [][NextThreads]_vars

\* ------------------------------------------------------------- properties
ApiOps ==
  {"upload_file", "upload_files", "list_files", "list_folders", "create_folder",
   "rename_folder", "delete_folder", "get_file_metadata", "update_file",
   "delete_file", "get_metrics"}

Taxonomy ==
  {"FILE_TOO_LARGE", "STORAGE_LIMIT", "FILE_COUNT_LIMIT", "MIME_TYPE_NOT_ALLOWED",
   "COMPRESSION_NOT_ALLOWED", "SUBSCRIPTION_INACTIVE", "FOLDER_COUNT_LIMIT",
   "EMAIL_ALREADY_REGISTERED", "EMAIL_NOT_VERIFIED", "INVALID_CREDENTIALS",
   "INVALID_OTP", "UNAUTHORIZED", "NOT_FOUND", "UNKNOWN"}

\* The last call got a response from the transport.
Responded == last.op \in ApiOps /\ last.sent = 1 /\ last.transport = "none"

\* The body of the last response as the specification decodes it.
DecodedBody ==
  IF last.response.json_ok THEN last.response.json
  ELSE TextPayload(last.response.text)

\* C1: an authenticated operation called with the key or the secret missing
\* ends with FluxsaveError 401 UNAUTHORIZED and issues no HTTP request.
C1_MissingCredentialsRaise401 ==
  (last.op \in ApiOps /\ (~Truthy(last.key) \/ ~Truthy(last.secret)))
    => /\ last.kind = "FluxsaveError"
       /\ last.status = 401
       /\ last.code = "UNAUTHORIZED"
       /\ last.sent = 0

\* C2: every handle a call opened is closed when the call exits, so no
\* handle opened by the client stays open after any sequence of calls.
C2_HandlesClosedOnEveryExit ==
  /\ unclosed = 0
  /\ last.closed + last.finalised = last.opened

\* The classification table of the specification, top to bottom: a row
\* matches its status and, when it lists keywords, any one of them.
Table ==
  << [status |-> 413, any |-> { <<"s","t","o","r","a","g","e"," ","l","i","m","i","t">> }, code |-> "STORAGE_LIMIT"],
     [status |-> 413, any |-> {}, code |-> "FILE_TOO_LARGE"],
     [status |-> 415, any |-> {}, code |-> "MIME_TYPE_NOT_ALLOWED"],
     [status |-> 402, any |-> {}, code |-> "SUBSCRIPTION_INACTIVE"],
     [status |-> 403, any |-> { <<"c","o","m","p","r","e","s","s","i","o","n">> }, code |-> "COMPRESSION_NOT_ALLOWED"],
     [status |-> 403, any |-> { <<"f","o","l","d","e","r">> }, code |-> "FOLDER_COUNT_LIMIT"],
     [status |-> 403, any |-> { <<"f","i","l","e">>, <<"m","a","x","i","m","u","m">> }, code |-> "FILE_COUNT_LIMIT"],
     [status |-> 403, any |-> { <<"e","m","a","i","l">> }, code |-> "EMAIL_NOT_VERIFIED"],
     [status |-> 400, any |-> { <<"a","l","r","e","a","d","y"," ","r","e","g","i","s","t","e","r","e","d">> },
      code |-> "EMAIL_ALREADY_REGISTERED"],
     [status |-> 400, any |-> { <<"i","n","v","a","l","i","d"," ","e","m","a","i","l"," ","o","r"," ","p","a","s","s","w","o","r","d">>, <<"i","n","v","a","l","i","d"," ","c","r","e","d","e","n","t","i","a","l","s">> },
      code |-> "INVALID_CREDENTIALS"],
     [status |-> 400, any |-> { <<"o","t","p">> }, code |-> "INVALID_OTP"],
     [status |-> 401, any |-> {}, code |-> "UNAUTHORIZED"],
     [status |-> 404, any |-> {}, code |-> "NOT_FOUND"] >>

TableCode(status, message) ==
  LET m == Lower(message)
      hits == { i \in 1..Len(Table) :
                  /\ Table[i].status = status
                  /\ (Table[i].any = {} \/ \E kw \in Table[i].any : Contains(kw, m)) }
  IN IF hits = {} THEN "UNKNOWN"
     ELSE Table[CHOOSE i \in hits : \A j \in hits : i <= j].code

\* C3: _resolve_error_code(status, message) is the code of the first table
\* row that matches, UNKNOWN when none does; a 403 message containing
\* "compression" yields COMPRESSION_NOT_ALLOWED whatever else it contains.
C3_FirstMatchingRow ==
  last.op = "_resolve_error_code"
    => /\ last.code = TableCode(last.status, last.message.s)
       /\ (last.status = 403 /\ Contains(<<"c","o","m","p","r","e","s","s","i","o","n">>, Lower(last.message.s)))
            => last.code = "COMPRESSION_NOT_ALLOWED"

C3_Witness ==
  /\ last.op = "_resolve_error_code"
  /\ last.status = 403
  /\ last.message.s = <<"F","o","l","d","e","r","c","o","m","p","r","e","s","s","i","o","n">>
  /\ last.code = "COMPRESSION_NOT_ALLOWED"

\* C4: every FluxsaveError an operation raises carries a code that is one of
\* the 14 taxonomy members and is the classification of the status and
\* message the same error carries.
C4_CodeIsClassification ==
  last.kind = "FluxsaveError"
    => /\ last.code \in Taxonomy
       /\ last.code # ""
       /\ last.message.t = "str"
       /\ last.code = _resolve_error_code(last.status, last.message.s)

\* An error whose payload holds an empty message and whose code comes from
\* the reason phrase the error carries as its message.
C4_Witness ==
  /\ last.kind = "FluxsaveError"
  /\ last.status = 400
  /\ last.data.has_message
  /\ last.message = StrV(<<"B","a","d"," ","O","T","P"," ","c","o","d","e">>)
  /\ last.code = "INVALID_OTP"

\* C5: a failure status raises a FluxsaveError with the response's status,
\* the body's message field when the body is an object that has it and the
\* reason phrase otherwise, the classification of both, and the decoded
\* body as payload; nothing else is raised.
C5_FailureRaisesFluxsaveError ==
  (Responded /\ ~ok(last.response))
    => /\ last.kind = "FluxsaveError"
       /\ last.status = last.response.status_code
       /\ last.message = (IF DecodedBody.t = "dict" /\ DecodedBody.has_message
                          THEN DecodedBody.message
                          ELSE StrV(last.response.reason))
       /\ last.message.t = "str"
       /\ last.code = TableCode(last.status, last.message.s)
       /\ last.data = DecodedBody

\* C6: a success status returns the decoded body, or the raw text when
\* decoding fails, unaltered, also when the body holds a message field.
C6_SuccessReturnsBody ==
  (Responded /\ ok(last.response))
    => /\ last.kind = "return"
       /\ last.value = (IF last.response.json_ok THEN last.response.json
                        ELSE [t |-> "str", text |-> last.response.text,
                              has_message |-> FALSE, message |-> NoneV])

C6_Witness ==
  /\ Responded
  /\ last.response.status_code = 200
  /\ last.kind = "return"
  /\ last.value.t = "dict"
  /\ last.value.message = StrV(<<"S","t","o","r","a","g","e"," ","l","i","m","i","t"," ","e","x","c","e","e","d","e","d">>)

\* C7: a call issues at most one HTTP request; a transport failure reaches
\* the caller as the transport's own error after that one request, and a
\* failure status reaches the caller as one FluxsaveError.
C7_NoRetries ==
  last.op \in ApiOps
    => /\ last.sent <= 1
       /\ (last.transport # "none" => last.kind = last.transport /\ last.sent = 1)
       /\ (Responded /\ ~ok(last.response) => last.kind = "FluxsaveError")

\* C8 as claimed: every request carries a key and a secret that were set
\* together, also when its headers are built while set_auth runs in another
\* thread.
C8_AlwaysPaired ==
  last.sent = 1 => <<last.hkey, last.hsecret>> \in pairs

\* C8, amended: as long as no two set_auth calls have run at the same time,
\* the two credentials form a pair set together whenever no set_auth is
\* running, and a request whose call did not overlap a set_auth carries
\* such a pair.
C8_PairedWithoutOverlap ==
  /\ (~raced /\ ~InSetAuth => <<api_key, api_secret>> \in pairs)
  /\ (last.sent = 1 /\ ~last.overlapped /\ ~last.raced
        => <<last.hkey, last.hsecret>> \in pairs)

\* A request sent after a completed set_auth, with no set_auth during it
\* and no two set_auth calls at the same time before it.
C8_Witness ==
  /\ last.sent = 1
  /\ ~last.overlapped
  /\ ~last.raced
  /\ last.hkey = StrV(<<"K","2">>)
  /\ last.hsecret = StrV(<<"S","2">>)

\* Two set_auth calls that ran at the same time left the key of one and the
\* secret of the other, and a later call that overlapped no set_auth sent
\* that pair.
C8_RacedSetAuthLeavesMixedPair ==
  /\ last.sent = 1
  /\ ~last.overlapped
  /\ last.raced
  /\ <<last.hkey, last.hsecret>> \notin pairs

KeyValue(option) == option.k \o <<"=">> \o PyStr(option.v)

RECURSIVE QueryOf(_)
QueryOf(options) ==
  IF Len(options) = 1 THEN KeyValue(options[1])
  ELSE QueryOf(SubSeq(options, 1, Len(options) - 1))
         \o <<"&">> \o KeyValue(options[Len(options)])

\* C9: build_file_url returns, issues no request, and yields base_url +
\* "/api/v1/files/" + file_id, followed by "?" and the key=value pairs
\* joined by "&" in the order given when there are options; base_url never
\* ends with a slash.
C9_BuildFileUrl ==
  /\ (base_url = <<>> \/ base_url[Len(base_url)] # "/")
  /\ last.op = "build_file_url"
       => /\ last.kind = "return"
          /\ last.sent = 0
          /\ last.options = <<>>
               => last.url = base_url \o <<"/","a","p","i","/","v","1","/","f","i","l","e","s","/">> \o last.file_id
          /\ last.options # <<>>
               => last.url = base_url \o <<"/","a","p","i","/","v","1","/","f","i","l","e","s","/">> \o last.file_id
                               \o <<"?">> \o QueryOf(last.options)
          /\ last.options = <<[k |-> <<"w">>, v |-> IntV(100)], [k |-> <<"h">>, v |-> IntV(50)]>>
               => last.url = base_url \o <<"/","a","p","i","/","v","1","/","f","i","l","e","s","/","a","b","c","?","w","=","1","0","0","&","h","=","5","0">>

\* The URL of the specification's example, built with no credentials set.
C9_Witness ==
  /\ last.op = "build_file_url"
  /\ ~Truthy(api_key)
  /\ last.url = <<"h","t","t","p",":","/","/","h","/","a","p","i","/","v","1","/","f","i","l","e","s","/","a","b","c","?","w","=","1","0","0","&","h","=","5","0">>

\* C10: no step changes base_url or timeout, and only set_auth changes
\* api_key or api_secret, whether the call returns or raises.
C10_Frame ==
  [][ /\ base_url' = base_url
      /\ timeout' = timeout
      /\ (api_key' # api_key \/ api_secret' # api_secret) => last'.op = "set_auth"
    ]_vars

\* A call that raised after set_auth, with the constructor's timeout kept.
C10_Witness ==
  /\ last.op \in ApiOps
  /\ last.kind = "FluxsaveError"
  /\ api_key = StrV(<<"K","2">>)
  /\ api_secret = StrV(<<>>)
  /\ timeout = 5

====
